---- MODULE Spec2Model ----
(***************************************************************************)
(* A model of two parts of the event layer:                                *)
(*   - the batching coordinator (batchedUpdates, interactiveUpdates,       *)
(*     flushInteractiveUpdates, setBatchingImplementation), with its       *)
(*     call stack made explicit so that re-entrant calls can be followed;  *)
(*   - SyntheticEvent with its per-class event pool.                       *)
(***************************************************************************)
EXTENDS Integers, Sequences, FiniteSets, TLC

VARIABLES
    \* ---- batching coordinator ----
    isBatching,          \* the module-level flag
    batchedUpdatesImpl,  \* _batchedUpdatesImpl : "default" or "injected"
    interactiveUpdatesImpl,
    flushInteractiveUpdatesImpl,
    stack,               \* activations in progress, innermost last
    raised,              \* an exception thrown by the callee has reached the top activation
    lastDone,            \* the activation that ended last, as it was when it ended
    \* ---- synthetic events and their pools ----
    classes,             \* the event constructors: SyntheticEvent, then those made by extend
    heap,                \* the event objects allocated so far
    natives,             \* the native events
    held,                \* the events handed out by getPooled and not released since
    last                 \* the latest call on the event layer and what it returned

batchVars == <<isBatching, batchedUpdatesImpl, interactiveUpdatesImpl,
               flushInteractiveUpdatesImpl, stack, raised, lastDone>>

poolVars == <<classes, heap, natives, held, last>>

vars == <<batchVars, poolVars>>

(***************************************************************************)
(* Bounds                                                                  *)
(***************************************************************************)
MaxDepth == 3
MaxInst == 2
MaxClasses == 2
MaxMisuseInst == 1
MaxHeld == 2
MaxSiblings == 2
MaxSibInst == 2
MaxUseInst == 1
MaxChain == 2
MaxChainInst == 1
MaxNativeCalls == 2

Impls == {"default", "injected"}
\* The wirings a host passes to setBatchingImplementation: the renderer's
\* three functions, or functions that behave as the defaults do.
Wirings == {<<"default", "default", "default">>, <<"injected", "injected", "injected">>}
Results == {0, 1}

(***************************************************************************)
(* Batching coordinator                                                    *)
(***************************************************************************)
NoFrame == [kind |-> "none"]

\* One activation. kind: which function; idle: whether isBatching was false
\* when it was entered; outer: for batchedUpdates, whether it took the path of
\* lines 43-66 (the outermost path) and not the return of line 41; via: which implementation runs the body;
\* pc: where the activation is; thrown: its body ended by a throw; nq, nfl,
\* nrs: how often this activation called needsStateRestore,
\* _flushInteractiveUpdatesImpl and restoreStateIfNeeded; nfn, nimpl: how
\* often it called fn directly and how often _batchedUpdatesImpl; bodyResult:
\* what the function called in the body returned; result: what the activation
\* returns.
Frame(kind, outer, via, pc) ==
    [kind |-> kind, idle |-> ~isBatching, outer |-> outer, via |-> via, pc |-> pc,
     thrown |-> FALSE, bodyResult |-> 0, result |-> 0,
     nq |-> 0, nfl |-> 0, nrs |-> 0, nfn |-> 0, nimpl |-> 0,
     needs |-> FALSE]

Depth == Len(stack)
Top == stack[Depth]

\* Code of the caller can run: at top level, or in the body of the innermost
\* activation (fn, an injected implementation, the restoration collaborator).
InUserCode == ~raised /\ (IF Depth = 0 THEN TRUE ELSE Top.pc = "body")

Push(f) == stack' = Append(stack, f)
SetTop(f) == stack' = [stack EXCEPT ![Depth] = f]
\* The innermost activation ends; a throw reaches its caller.
Pop(f) ==
    /\ stack' = SubSeq(stack, 1, Depth - 1)
    /\ raised' = f.thrown
    /\ lastDone' = [f EXCEPT !.pc = "done"] @@ [flagAtExit |-> isBatching']

implVars == <<batchedUpdatesImpl, interactiveUpdatesImpl, flushInteractiveUpdatesImpl>>

IsNested_Never(flag) == FALSE

\* line 37: the call is nested when the flag is already set
IsNested(flag) == flag

\* batchedUpdates(fn, bookkeeping), up to the call of fn or of the implementation
batchedUpdates ==
    /\ UNCHANGED poolVars
    /\ InUserCode /\ Depth < MaxDepth
    /\ IF IsNested(isBatching)
       THEN /\ Push([Frame("batched", FALSE, "direct", "body") EXCEPT !.nfn = 1])
            /\ UNCHANGED isBatching
       ELSE /\ isBatching' = TRUE
            /\ Push([Frame("batched", TRUE, batchedUpdatesImpl, "body")
                         EXCEPT !.nimpl = 1])
    /\ UNCHANGED <<implVars, raised, lastDone>>

interactiveUpdates_SetsFlag ==
    /\ UNCHANGED poolVars
    /\ InUserCode /\ Depth < MaxDepth
    /\ Push(Frame("interactive", FALSE, interactiveUpdatesImpl, "body"))
    /\ isBatching' = TRUE
    /\ UNCHANGED <<implVars, raised, lastDone>>

\* interactiveUpdates(fn, a, b)
interactiveUpdates ==
    /\ UNCHANGED poolVars
    /\ InUserCode /\ Depth < MaxDepth
    /\ Push(Frame("interactive", FALSE, interactiveUpdatesImpl, "body"))
    /\ UNCHANGED <<isBatching, implVars, raised, lastDone>>

\* flushInteractiveUpdates(): the default implementation is the empty function
flushInteractiveUpdates ==
    /\ UNCHANGED poolVars
    /\ InUserCode /\ Depth < MaxDepth
    /\ IF flushInteractiveUpdatesImpl = "default"
       THEN /\ lastDone' = [Frame("flush", FALSE, "default", "done") EXCEPT !.nfl = 1]
                               @@ [flagAtExit |-> isBatching]
            /\ UNCHANGED stack
       ELSE /\ Push([Frame("flush", FALSE, "injected", "body") EXCEPT !.nfl = 1])
            /\ UNCHANGED lastDone
    /\ UNCHANGED <<isBatching, implVars, raised>>

setBatchingImplementation_ResetsFlag ==
    /\ UNCHANGED poolVars
    /\ InUserCode
    /\ \E w \in Wirings :
          /\ batchedUpdatesImpl' = w[1]
          /\ interactiveUpdatesImpl' = w[2]
          /\ flushInteractiveUpdatesImpl' = w[3]
    /\ isBatching' = FALSE
    /\ UNCHANGED <<stack, raised, lastDone>>

\* setBatchingImplementation(batchedUpdatesImpl, interactiveUpdatesImpl, flushImpl)
setBatchingImplementation ==
    /\ UNCHANGED poolVars
    /\ InUserCode
    /\ \E w \in Wirings :
          /\ batchedUpdatesImpl' = w[1]
          /\ interactiveUpdatesImpl' = w[2]
          /\ flushInteractiveUpdatesImpl' = w[3]
    /\ UNCHANGED <<isBatching, stack, raised, lastDone>>

ReturnValue_Dropped(f, r) == f.result

\* lines 41, 45, 70 and 74: the activation returns what the function it called
\* returned
ReturnValue(f, r) == r

\* The body of the innermost activation returns. For an outermost
\* batchedUpdates the try block is left and the finally block entered.
BodyReturns ==
    /\ UNCHANGED poolVars
    /\ Depth > 0 /\ ~raised /\ Top.pc = "body"
    /\ \E r \in Results :
         LET f == [Top EXCEPT !.bodyResult = r, !.result = ReturnValue(Top, r)] IN
         IF Top.kind = "batched" /\ Top.outer
         THEN /\ SetTop([f EXCEPT !.pc = "reset"])
              /\ UNCHANGED <<isBatching, raised, lastDone>>
         ELSE /\ isBatching' = isBatching
              /\ Pop(f)
    /\ UNCHANGED implVars

ThrowEntersFinally_Never(f) == FALSE

\* What a throw out of the body does to the activation: the try/finally of an
\* outermost batchedUpdates (lines 44-46) enters the finally block.
ThrowEntersFinally(f) == f.kind = "batched" /\ f.outer

\* The body of the innermost activation throws, or lets the exception of a
\* callee through.
BodyThrows ==
    /\ UNCHANGED poolVars
    /\ Depth > 0 /\ Top.pc = "body"
    /\ LET f == [Top EXCEPT !.thrown = TRUE] IN
         IF ThrowEntersFinally(Top)
         THEN /\ SetTop([f EXCEPT !.pc = "reset"])
              /\ raised' = FALSE
              /\ UNCHANGED <<isBatching, lastDone>>
         ELSE /\ isBatching' = isBatching
              /\ Pop(f)
    /\ UNCHANGED implVars

\* The caller's code catches the exception of a callee (also at top level).
BodyCatches ==
    /\ UNCHANGED poolVars
    /\ raised /\ (IF Depth = 0 THEN TRUE ELSE Top.pc = "body")
    /\ raised' = FALSE
    /\ UNCHANGED <<isBatching, implVars, stack, lastDone>>

FinallyReset_Skipped ==
    /\ UNCHANGED poolVars
    /\ Depth > 0 /\ Top.pc = "reset"
    /\ SetTop([Top EXCEPT !.pc = "check"])
    /\ UNCHANGED <<isBatching, implVars, raised, lastDone>>

\* line 53: isBatching = false
FinallyReset ==
    /\ UNCHANGED poolVars
    /\ Depth > 0 /\ Top.pc = "reset"
    /\ isBatching' = FALSE
    /\ SetTop([Top EXCEPT !.pc = "check"])
    /\ UNCHANGED <<implVars, raised, lastDone>>

\* lines 54-55: needsStateRestore() is asked; its answer is the collaborator's
FinallyCheck ==
    /\ UNCHANGED poolVars
    /\ Depth > 0 /\ Top.pc = "check"
    /\ UNCHANGED <<isBatching, implVars>>
    /\ \E b \in BOOLEAN :
         LET f == [Top EXCEPT !.nq = @ + 1, !.needs = b] IN
         IF b
         THEN /\ SetTop([f EXCEPT !.pc = "flush"])
              /\ UNCHANGED <<raised, lastDone>>
         ELSE Pop(f)

\* line 63: _flushInteractiveUpdatesImpl()
FinallyFlush ==
    /\ UNCHANGED poolVars
    /\ Depth > 0 /\ Top.pc = "flush"
    /\ LET f == [Top EXCEPT !.nfl = @ + 1, !.pc = "restore"] IN
         IF flushInteractiveUpdatesImpl = "default"
         THEN SetTop(f)
         ELSE stack' = Append([stack EXCEPT ![Depth] = f],
                              Frame("flushExit", FALSE, "injected", "body"))
    /\ UNCHANGED <<isBatching, implVars, raised, lastDone>>

\* line 64: restoreStateIfNeeded()
FinallyRestore ==
    /\ UNCHANGED poolVars
    /\ Depth > 0 /\ Top.pc = "restore" /\ ~raised
    /\ stack' = Append([stack EXCEPT ![Depth] = [Top EXCEPT !.nrs = @ + 1, !.pc = "exit"]],
                       Frame("restore", FALSE, "collaborator", "body"))
    /\ UNCHANGED <<isBatching, implVars, raised, lastDone>>

\* line 66: the finally block is done; the call returns or rethrows
FinallyExit ==
    /\ UNCHANGED poolVars
    /\ Depth > 0 /\ Top.pc = "exit" /\ ~raised
    /\ isBatching' = isBatching
    /\ Pop(Top)
    /\ UNCHANGED implVars

\* An exception thrown by a call made in the finally block leaves the call.
FinallyThrows ==
    /\ UNCHANGED poolVars
    /\ Depth > 0 /\ Top.pc \in {"restore", "exit"} /\ raised
    /\ isBatching' = isBatching
    /\ Pop([Top EXCEPT !.thrown = TRUE])
    /\ UNCHANGED implVars

(***************************************************************************)
(* Synthetic events                                                        *)
(*                                                                         *)
(* JavaScript values are written as strings: "undefined", "null", "true",  *)
(* "false", and other strings for numbers, strings and object references.  *)
(***************************************************************************)
Undefined == "undefined"
Null == "null"
IsNullish(v) == v \in {Undefined, Null}
Truthy(v) == v \notin {Undefined, Null, "false", "0", ""}

\* The rules of a descriptor table: null (copy the native field), or a function.
NullRule == Null
ReturnsNull == "function () { return null }"
TimeStampOrNow == "function (event) { return event.timeStamp || Date.now() }"

\* lines 18-33
EventInterface ==
    [type |-> NullRule, target |-> NullRule, currentTarget |-> ReturnsNull,
     eventPhase |-> NullRule, bubbles |-> NullRule, cancelable |-> NullRule,
     timeStamp |-> TimeStampOrNow, defaultPrevented |-> NullRule,
     isTrusted |-> NullRule]

\* A table given to extend: the fields a UI event adds.
UIEventInterface == [view |-> NullRule, detail |-> NullRule]
\* Another one: it adds a field and replaces the rules of two fields.
MouseEventInterface == [button |-> NullRule, detail |-> ReturnsNull, timeStamp |-> NullRule]
Tables == {UIEventInterface, MouseEventInterface}

\* The native events of the model. A modern one, with the DOM methods, a
\* legacy one, with neither the methods nor the DOM Level 3 fields, a modern
\* one whose default action was prevented before it was dispatched, and a
\* propertychange event of old Internet Explorer, for whose returnValue and
\* cancelBubble typeof gives 'unknown' (written as the value "unknown").
\* preventDefaultCalls and stopPropagationCalls record the calls of the native
\* methods.
NativeIds == {"n1", "n2", "n3", "n4"}
NativeInit ==
    [n \in NativeIds |->
       IF n = "n1"
       THEN [type |-> "click", eventPhase |-> "3", bubbles |-> "true",
             cancelable |-> "true", timeStamp |-> "1000", defaultPrevented |-> "false",
             isTrusted |-> "true", view |-> "window", detail |-> "1",
             returnValue |-> "true", cancelBubble |-> "false",
             preventDefault |-> "function", stopPropagation |-> "function",
             preventDefaultCalls |-> 0, stopPropagationCalls |-> 0]
       ELSE IF n = "n3"
       THEN [type |-> "submit", eventPhase |-> "3", bubbles |-> "true",
             cancelable |-> "true", timeStamp |-> "0", defaultPrevented |-> "true",
             isTrusted |-> "false", view |-> "window", detail |-> "0",
             returnValue |-> "true", cancelBubble |-> "false",
             preventDefault |-> "function", stopPropagation |-> "function",
             preventDefaultCalls |-> 0, stopPropagationCalls |-> 0]
       ELSE IF n = "n4"
       THEN [type |-> "propertychange", eventPhase |-> Undefined, bubbles |-> Undefined,
             cancelable |-> Undefined, timeStamp |-> Undefined,
             defaultPrevented |-> Undefined,
             isTrusted |-> Undefined, view |-> Undefined, detail |-> Undefined,
             returnValue |-> "unknown", cancelBubble |-> "unknown",
             preventDefault |-> Undefined, stopPropagation |-> Undefined,
             preventDefaultCalls |-> 0, stopPropagationCalls |-> 0]
       ELSE [type |-> "change", eventPhase |-> Undefined, bubbles |-> Undefined,
             cancelable |-> Undefined, timeStamp |-> Undefined,
             defaultPrevented |-> Undefined,
             isTrusted |-> Undefined, view |-> Undefined, detail |-> Undefined,
             returnValue |-> Undefined, cancelBubble |-> Undefined,
             preventDefault |-> Undefined, stopPropagation |-> Undefined,
             preventDefaultCalls |-> 0, stopPropagationCalls |-> 0]]

\* nativeEvent[propName]
NativeField(ne, propName) ==
    IF propName \in DOMAIN natives[ne] THEN natives[ne][propName] ELSE Undefined

\* The arguments of a construction: dispatchConfig, targetInst, nativeEvent,
\* nativeEventTarget, and what Date.now() returns during it.
Args ==
    { [dispatchConfig |-> "configA", targetInst |-> "instA", nativeEvent |-> "n1",
       nativeEventTarget |-> "nodeA", now |-> "2000"],
      [dispatchConfig |-> "configB", targetInst |-> "instB", nativeEvent |-> "n2",
       nativeEventTarget |-> "nodeB", now |-> "2000"] }
\* A construction from the native event whose default action was prevented.
ArgsPrevented ==
    { [dispatchConfig |-> "configA", targetInst |-> "instA", nativeEvent |-> "n3",
       nativeEventTarget |-> "nodeA", now |-> "2000"] }
\* A construction from the propertychange event.
ArgsPropertyChange ==
    { [dispatchConfig |-> "configB", targetInst |-> "instB", nativeEvent |-> "n4",
       nativeEventTarget |-> "nodeB", now |-> "2000"] }
NoArgs == [dispatchConfig |-> Undefined, targetInst |-> Undefined, nativeEvent |-> Undefined,
           nativeEventTarget |-> Undefined, now |-> Undefined]

\* line 97: normalize(nativeEvent)
Normalize(rule, a) ==
    IF rule = TimeStampOrNow
    THEN (IF Truthy(NativeField(a.nativeEvent, "timeStamp"))
          THEN NativeField(a.nativeEvent, "timeStamp") ELSE a.now)
    ELSE Null

\* lines 93-104: the value of one field of the descriptor table
FieldValue(propName, rule, a) ==
    IF rule # NullRule
    THEN Normalize(rule, a)
    ELSE IF propName = "target"
         THEN a.nativeEventTarget
         ELSE NativeField(a.nativeEvent, propName)

NativeDefaultPrevented_NoFallback(ne) == Truthy(NativeField(ne, "defaultPrevented"))

\* lines 112-115
NativeDefaultPrevented(ne) ==
    IF ~IsNullish(NativeField(ne, "defaultPrevented"))
    THEN Truthy(NativeField(ne, "defaultPrevented"))
    ELSE NativeField(ne, "returnValue") = "false"

\* Is class c the class d or one of the classes d was extended from
\* (d.prototype is on the prototype chain of c's instances)?
RECURSIVE InheritsFrom(_, _)
InheritsFrom(c, d) ==
    IF c = d THEN TRUE
    ELSE IF classes[c].Super = 0 THEN FALSE
    ELSE InheritsFrom(classes[c].Super, d)

InstanceOf_Any(e, c) == TRUE

\* line 281: event instanceof EventConstructor
InstanceOf(e, c) == InheritsFrom(heap[e].cls, c)

\* An object just made by new: nothing but its prototype, whose constructor is
\* c and whose isPersistent is functionThatReturnsFalse. The three predicates
\* are kept as the value the function bound to them returns.
NewObject(c) ==
    [cls |-> c, dispatchConfig |-> Undefined, targetInst |-> Undefined,
     nativeEvent |-> Undefined,
     props |-> [p \in DOMAIN classes[c].Interface |-> Undefined],
     isDefaultPrevented |-> FALSE, isPropagationStopped |-> FALSE,
     isPersistent |-> FALSE,
     dispatchListeners |-> Undefined, dispatchInstances |-> Undefined]

\* lines 71-125: the constructor, run on the object this
SyntheticEvent(this, a) ==
    LET Interface == classes[this.cls].Interface IN
    [this EXCEPT
       !.dispatchConfig = a.dispatchConfig,
       !.targetInst = a.targetInst,
       !.nativeEvent = a.nativeEvent,
       !.props = [p \in DOMAIN Interface |-> FieldValue(p, Interface[p], a)],
       !.isDefaultPrevented = NativeDefaultPrevented(a.nativeEvent),
       !.isPropagationStopped = FALSE]

destructor_KeepsStopped(this) ==
    [this EXCEPT
       !.props = [p \in DOMAIN classes[this.cls].Interface |-> Null],
       !.dispatchConfig = Null,
       !.targetInst = Null,
       !.nativeEvent = Null,
       !.isDefaultPrevented = FALSE,
       !.dispatchListeners = Null,
       !.dispatchInstances = Null]

\* lines 192-204
destructor(this) ==
    [this EXCEPT
       !.props = [p \in DOMAIN classes[this.cls].Interface |-> Null],
       !.dispatchConfig = Null,
       !.targetInst = Null,
       !.nativeEvent = Null,
       !.isDefaultPrevented = FALSE,
       !.isPropagationStopped = FALSE,
       !.dispatchListeners = Null,
       !.dispatchInstances = Null]


\* line 246
EVENT_POOL_SIZE == 10

\* What the event was like when release was called on it.
Uses(this) ==
    [isDefaultPrevented |-> this.isDefaultPrevented,
     isPropagationStopped |-> this.isPropagationStopped,
     isPersistent |-> this.isPersistent,
     dispatchListeners |-> this.dispatchListeners]
NoUses == [isDefaultPrevented |-> FALSE, isPropagationStopped |-> FALSE,
           isPersistent |-> FALSE, dispatchListeners |-> Undefined]

\* What `last` holds after a call: the call, whether it returned (ok) or threw,
\* for getPooled whether the event came from the pool, and for getPooled and
\* release how long the pool was before the call.
Call(op, c, e, a, ok, reused) ==
    [op |-> op, cls |-> c, inst |-> e, args |-> a, ok |-> ok, reused |-> reused,
     poolLen |-> IF op \in {"getPooled", "release"} THEN Len(classes[c].eventPool) ELSE 0,
     before |-> IF op = "release" THEN Uses(heap[e]) ELSE NoUses]
NoCall == Call("none", 0, 0, NoArgs, TRUE, FALSE)

PoolTop_First(pool) == pool[1]

\* line 260: eventPool.pop() takes the last element
PoolTop(pool) == pool[Len(pool)]
PoolRest(pool) == SubSeq(pool, 1, Len(pool) - 1)

\* lines 256-276: EventConstructor.getPooled(dispatchConfig, targetInst,
\* nativeEvent, nativeInst) on class c
getPooled(c, a) ==
    LET pool == classes[c].eventPool IN
    /\ IF Len(pool) # 0
       THEN LET instance == PoolTop(pool) IN
            /\ classes' = [classes EXCEPT ![c].eventPool = PoolRest(pool)]
            /\ heap' = [heap EXCEPT ![instance] = SyntheticEvent(heap[instance], a)]
            /\ held' = held \cup {instance}
            /\ last' = Call("getPooled", c, instance, a, TRUE, TRUE)
       ELSE /\ heap' = Append(heap, SyntheticEvent(NewObject(c), a))
            /\ held' = held \cup {Len(heap) + 1}
            /\ last' = Call("getPooled", c, Len(heap) + 1, a, TRUE, FALSE)
            /\ UNCHANGED classes
    /\ UNCHANGED <<natives, batchVars>>

PoolHasRoom_OffByOne(pool) == Len(pool) <= EVENT_POOL_SIZE

\* line 287
PoolHasRoom(pool) == Len(pool) < EVENT_POOL_SIZE

release_IntoBase(c, e) ==
    /\ IF ~InstanceOf(e, c)
       THEN /\ last' = Call("release", c, e, NoArgs, FALSE, FALSE)
            /\ UNCHANGED <<classes, heap, held>>
       ELSE /\ heap' = [heap EXCEPT ![e] = destructor(heap[e])]
            /\ classes' = [classes EXCEPT ![1].eventPool =
                              IF PoolHasRoom(@) THEN Append(@, e) ELSE @]
            /\ held' = held \ {e}
            /\ last' = Call("release", c, e, NoArgs, TRUE, FALSE)
    /\ UNCHANGED <<natives, batchVars>>

\* lines 278-290: EventConstructor.release(event) on class c
release(c, e) ==
    /\ IF ~InstanceOf(e, c)
       THEN \* invariant(...) throws
            /\ last' = Call("release", c, e, NoArgs, FALSE, FALSE)
            /\ UNCHANGED <<classes, heap, held>>
       ELSE /\ heap' = [heap EXCEPT ![e] = destructor(heap[e])]
            /\ classes' = [classes EXCEPT ![c].eventPool =
                              IF PoolHasRoom(@) THEN Append(@, e) ELSE @]
            /\ held' = held \ {e}
            /\ last' = Call("release", c, e, NoArgs, TRUE, FALSE)
    /\ UNCHANGED <<natives, batchVars>>

\* lines 128-142
preventDefault(e) ==
    LET this == heap[e]
        event == this.nativeEvent
    IN
    /\ IF ~Truthy(event)
       THEN /\ heap' = [heap EXCEPT ![e].props.defaultPrevented = "true"]
            /\ UNCHANGED natives
       ELSE /\ heap' = [heap EXCEPT ![e].props.defaultPrevented = "true",
                                    ![e].isDefaultPrevented = TRUE]
            /\ IF Truthy(natives[event].preventDefault)
               THEN natives' = [natives EXCEPT ![event].preventDefaultCalls = @ + 1]
               ELSE IF natives[event].returnValue # "unknown"
                    THEN natives' = [natives EXCEPT ![event].returnValue = "false"]
                    ELSE UNCHANGED natives
    /\ last' = Call("preventDefault", 0, e, NoArgs, TRUE, FALSE)
    /\ UNCHANGED <<classes, held, batchVars>>

stopPropagation_NoFallback(e) ==
    LET this == heap[e]
        event == this.nativeEvent
    IN
    /\ IF ~Truthy(event)
       THEN UNCHANGED <<heap, natives>>
       ELSE /\ heap' = [heap EXCEPT ![e].isPropagationStopped = TRUE]
            /\ IF Truthy(natives[event].stopPropagation)
               THEN natives' = [natives EXCEPT ![event].stopPropagationCalls = @ + 1]
               ELSE UNCHANGED natives
    /\ last' = Call("stopPropagation", 0, e, NoArgs, TRUE, FALSE)
    /\ UNCHANGED <<classes, held, batchVars>>

\* lines 144-166
stopPropagation(e) ==
    LET this == heap[e]
        event == this.nativeEvent
    IN
    /\ IF ~Truthy(event)
       THEN UNCHANGED <<heap, natives>>
       ELSE /\ heap' = [heap EXCEPT ![e].isPropagationStopped = TRUE]
            /\ IF Truthy(natives[event].stopPropagation)
               THEN natives' = [natives EXCEPT ![event].stopPropagationCalls = @ + 1]
               ELSE IF natives[event].cancelBubble # "unknown"
                    THEN natives' = [natives EXCEPT ![event].cancelBubble = "true"]
                    ELSE UNCHANGED natives
    /\ last' = Call("stopPropagation", 0, e, NoArgs, TRUE, FALSE)
    /\ UNCHANGED <<classes, held, batchVars>>

\* lines 176-178
persist(e) ==
    /\ heap' = [heap EXCEPT ![e].isPersistent = TRUE]
    /\ last' = Call("persist", 0, e, NoArgs, TRUE, FALSE)
    /\ UNCHANGED <<classes, natives, held, batchVars>>

\* The dispatcher fills the two slots of an event it is about to dispatch.
setDispatch(e) ==
    /\ heap' = [heap EXCEPT ![e].dispatchListeners = "listeners",
                            ![e].dispatchInstances = "instances"]
    /\ last' = Call("setDispatch", 0, e, NoArgs, TRUE, FALSE)
    /\ UNCHANGED <<classes, natives, held, batchVars>>

MergeInterface_BaseWins(base, derived) ==
    [p \in DOMAIN base \cup DOMAIN derived |->
       IF p \in DOMAIN base THEN base[p] ELSE derived[p]]

\* line 235: Object.assign({}, Super.Interface, Interface)
MergeInterface(base, derived) ==
    [p \in DOMAIN base \cup DOMAIN derived |->
       IF p \in DOMAIN derived THEN derived[p] ELSE base[p]]

\* lines 214-242 and 292-297: Super.extend(Interface). Given keeps the table
\* the class was made with.
extend(super, Interface) ==
    /\ classes' = Append(classes,
                     [Super |-> super, Given |-> Interface,
                      Interface |-> MergeInterface(classes[super].Interface, Interface),
                      eventPool |-> <<>>])
    /\ last' = Call("extend", Len(classes) + 1, 0, NoArgs, TRUE, FALSE)
    /\ UNCHANGED <<heap, natives, held, batchVars>>

ClassIds == 1..Len(classes)
Events == 1..Len(heap)

\* lines 207 and 301: SyntheticEvent itself, with its own pool
PoolInit ==
    /\ classes = << [Super |-> 0, Given |-> EventInterface,
                     Interface |-> EventInterface, eventPool |-> <<>>] >>
    /\ heap = <<>>
    /\ natives = NativeInit
    /\ held = {}
    /\ last = NoCall

BatchInit ==
    /\ isBatching = FALSE
    /\ batchedUpdatesImpl = "default"
    /\ interactiveUpdatesImpl = "default"
    /\ flushInteractiveUpdatesImpl = "default"
    /\ stack = <<>>
    /\ raised = FALSE
    /\ lastDone = NoFrame

BatchNext ==
    \/ batchedUpdates
    \/ interactiveUpdates
    \/ flushInteractiveUpdates
    \/ setBatchingImplementation
    \/ BodyReturns
    \/ BodyThrows
    \/ BodyCatches
    \/ FinallyReset
    \/ FinallyCheck
    \/ FinallyFlush
    \/ FinallyRestore
    \/ FinallyExit
    \/ FinallyThrows

Init == BatchInit /\ PoolInit

SpecBatch == Init /\ [][BatchNext]_vars

\* How many calls of the methods of the native events have been made.
RECURSIVE NativeCallsOf(_)
NativeCallsOf(ids) ==
    IF ids = {} THEN 0
    ELSE LET n == CHOOSE x \in ids : TRUE IN
         natives[n].preventDefaultCalls + natives[n].stopPropagationCalls
            + NativeCallsOf(ids \ {n})

\* The model follows at most MaxNativeCalls calls of the methods of the native
\* events: e.preventDefault() and e.stopPropagation() are followed when they
\* call no native method or when fewer calls than that have been made.
CanPreventDefault(e) ==
    LET event == heap[e].nativeEvent IN
    IF Truthy(event)
    THEN Truthy(natives[event].preventDefault)
            => NativeCallsOf(NativeIds) < MaxNativeCalls
    ELSE TRUE
CanStopPropagation(e) ==
    LET event == heap[e].nativeEvent IN
    IF Truthy(event)
    THEN Truthy(natives[event].stopPropagation)
            => NativeCallsOf(NativeIds) < MaxNativeCalls
    ELSE TRUE

\* getPooled allocates only when the pool is empty; the model allocates at
\* most maxInst events.
CanGetPooled(c, maxInst) == Len(classes[c].eventPool) # 0 \/ Len(heap) < maxInst

\* Spec: a caller that keeps to the contract of the pool of SyntheticEvent: it
\* uses and releases only events it holds.
GetPooledStep ==
    \E c \in ClassIds, a \in Args : CanGetPooled(c, MaxInst) /\ getPooled(c, a)
ReleaseHeld == \E c \in ClassIds, e \in held : release(c, e)
PreventDefaultHeld == \E e \in held : CanPreventDefault(e) /\ preventDefault(e)
PersistHeld == \E e \in held : persist(e)

Next ==
    \/ GetPooledStep
    \/ ReleaseHeld
    \/ PreventDefaultHeld
    \/ PersistHeld

Spec == Init /\ [][Next]_vars

\* SpecClasses: classes made by extend, each with its pool; the caller
\* releases the events it holds, into the pool of any class.
ArgsA == {a \in Args : a.nativeEvent = "n1"}
ExtendStep ==
    \E c \in ClassIds : Len(classes) < MaxClasses /\ extend(c, UIEventInterface)
GetPooledOfClass ==
    \E c \in ClassIds, a \in ArgsA : CanGetPooled(c, MaxInst) /\ getPooled(c, a)
ReleaseInto == \E c \in ClassIds, e \in held : release(c, e)

ClassesNext ==
    \/ ExtendStep
    \/ GetPooledOfClass
    \/ ReleaseInto

SpecClasses == Init /\ [][ClassesNext]_vars

\* SpecMisuse: a caller of the pool of SyntheticEvent that may release an
\* event twice: it releases the events it holds and, once more, the event it
\* has just released.
JustReleased(e) == last.op = "release" /\ last.ok /\ last.inst = e
GetPooledAgain ==
    \E c \in ClassIds, a \in Args : CanGetPooled(c, MaxMisuseInst) /\ getPooled(c, a)
ReleaseAgain ==
    \E c \in ClassIds, e \in Events : (e \in held \/ JustReleased(e)) /\ release(c, e)
PersistInUse == \E e \in held : persist(e)
StopPropagationInUse == \E e \in held : CanStopPropagation(e) /\ stopPropagation(e)

MisuseNext ==
    \/ GetPooledAgain
    \/ ReleaseAgain
    \/ PersistInUse
    \/ StopPropagationInUse

SpecMisuse == Init /\ [][MisuseNext]_vars

\* SpecFull: the pool of SyntheticEvent at its capacity. It starts where
\* EVENT_POOL_SIZE + 1 events have been taken with getPooled and all but the
\* last released: the pool is full and one event is in use. The caller keeps to
\* the contract and holds at most MaxHeld events at a time; the dispatcher
\* fills the slots of the events in use.
FirstArgs == CHOOSE a \in ArgsA : TRUE
FullInit ==
    /\ BatchInit
    /\ natives = NativeInit
    /\ classes = << [Super |-> 0, Given |-> EventInterface,
                     Interface |-> EventInterface,
                     eventPool |-> [i \in 1..EVENT_POOL_SIZE |-> i]] >>
    /\ heap = [i \in 1..(EVENT_POOL_SIZE + 1) |->
                 IF i <= EVENT_POOL_SIZE
                 THEN destructor(SyntheticEvent(NewObject(1), FirstArgs))
                 ELSE SyntheticEvent(NewObject(1), FirstArgs)]
    /\ held = {EVENT_POOL_SIZE + 1}
    /\ last = NoCall

GetPooledAtCapacity ==
    \E c \in ClassIds, a \in ArgsA :
        Cardinality(held) < MaxHeld /\ CanGetPooled(c, Len(heap)) /\ getPooled(c, a)
ReleaseAtCapacity == \E c \in ClassIds, e \in held : release(c, e)
PreventDefaultInUse == \E e \in held : CanPreventDefault(e) /\ preventDefault(e)
StopPropagationInDispatch == \E e \in held : CanStopPropagation(e) /\ stopPropagation(e)
SetDispatchInUse == \E e \in held : setDispatch(e)

FullNext ==
    \/ GetPooledAtCapacity
    \/ ReleaseAtCapacity
    \/ PreventDefaultInUse
    \/ StopPropagationInDispatch
    \/ SetDispatchInUse

SpecFull == FullInit /\ [][FullNext]_vars

\* SpecSiblings: SyntheticEvent and the classes made from it by
\* SyntheticEvent.extend, each with its pool. The caller takes events from any
\* class and releases the events it holds and, once more, the event it has
\* just released, into the pool of any class that does not hold the event yet.
ExtendBase == Len(classes) < MaxSiblings + 1 /\ extend(1, UIEventInterface)
GetPooledOfSibling ==
    \E c \in ClassIds, a \in ArgsA : CanGetPooled(c, MaxSibInst) /\ getPooled(c, a)
ReleaseThrough ==
    \E c \in ClassIds, e \in Events :
        /\ e \in held \/ JustReleased(e)
        /\ \A i \in 1..Len(classes[c].eventPool) : classes[c].eventPool[i] # e
        /\ release(c, e)

SiblingsNext ==
    \/ ExtendBase
    \/ GetPooledOfSibling
    \/ ReleaseThrough

SpecSiblings == Init /\ [][SiblingsNext]_vars

\* SpecUse: the events of SyntheticEvent in use. The caller takes events
\* constructed from any of the native events, releases the events it holds,
\* and calls preventDefault and stopPropagation on any event it has a
\* reference to, also one it has released.
GetPooledForUse ==
    \E c \in ClassIds, a \in Args \cup ArgsPrevented \cup ArgsPropertyChange :
        CanGetPooled(c, MaxUseInst) /\ getPooled(c, a)
ReleaseUsed == \E c \in ClassIds, e \in held : release(c, e)
PreventDefaultAny == \E e \in Events : CanPreventDefault(e) /\ preventDefault(e)
StopPropagationAny == \E e \in Events : CanStopPropagation(e) /\ stopPropagation(e)

UseNext ==
    \/ GetPooledForUse
    \/ ReleaseUsed
    \/ PreventDefaultAny
    \/ StopPropagationAny

SpecUse == Init /\ [][UseNext]_vars

\* SpecExtend: chains of extend. Any class is extended with any of the
\* tables; events of the classes are constructed and released.
ExtendWith ==
    \E c \in ClassIds, Interface \in Tables :
        Len(classes) < MaxChain + 1 /\ extend(c, Interface)
ConstructOf ==
    \E c \in ClassIds, a \in ArgsA : CanGetPooled(c, MaxChainInst) /\ getPooled(c, a)
ReleaseOf == \E c \in ClassIds, e \in held : release(c, e)

ExtendNext ==
    \/ ExtendWith
    \/ ConstructOf
    \/ ReleaseOf

SpecExtend == Init /\ [][ExtendNext]_vars

(***************************************************************************)
(* Properties of the batching coordinator                                  *)
(***************************************************************************)
IsBatchedCall(f) == f.kind = "batched"
InFinallyAfterCheck(f) == f.pc \in {"flush", "restore", "exit", "done"}

\* C1: a batchedUpdates call entered while isBatching is false asks
\* needsStateRestore exactly once, at its exit (never before its body has
\* ended); a call entered while isBatching is true never asks it and never
\* calls _flushInteractiveUpdatesImpl or restoreStateIfNeeded, whether its fn
\* returns or throws.
C1_RestoreCheckOncePerOutermost ==
    LET ok(f) ==
          IsBatchedCall(f) =>
             IF f.idle
             THEN f.nq = (IF InFinallyAfterCheck(f) THEN 1 ELSE 0)
             ELSE f.nq = 0 /\ f.nfl = 0 /\ f.nrs = 0
    IN /\ \A i \in 1..Depth : ok(stack[i])
       /\ lastDone.kind # "none" => ok(lastDone)

\* A nested call has failed inside an outermost call, which has then asked
\* needsStateRestore once.
C1_Witness ==
    /\ Depth = 1 /\ IsBatchedCall(Top) /\ Top.idle /\ Top.pc = "flush" /\ Top.nq = 1
    /\ IsBatchedCall(lastDone) /\ ~lastDone.idle /\ lastDone.thrown /\ lastDone.nq = 0

\* C2: whenever the exit path of an outermost call is about to call
\* needsStateRestore, _flushInteractiveUpdatesImpl or restoreStateIfNeeded, and
\* whenever the code of one of the two collaborators called from that path is
\* running, isBatching is false; the body of that call has ended by then (the
\* only activations above it are the two collaborators and what they call);
\* and a batchedUpdates call made by such a collaborator takes the outermost
\* path.
C2_FlagResetBeforeRestoration ==
    /\ Depth > 0 =>
         /\ (IsBatchedCall(Top) /\ Top.pc \in {"check", "flush", "restore", "exit"})
               => ~isBatching
         /\ Top.kind \in {"flushExit", "restore"} => ~isBatching
    /\ \A i \in 1..(Depth - 1) :
         /\ (IsBatchedCall(stack[i]) /\ stack[i].outer /\ stack[i].pc # "body")
               => /\ stack[i].pc \in {"restore", "exit"}
                  /\ stack[i+1].kind = (IF stack[i].pc = "restore" THEN "flushExit"
                                                                   ELSE "restore")
         /\ (stack[i].kind \in {"flushExit", "restore"} /\ IsBatchedCall(stack[i+1]))
               => stack[i+1].idle /\ stack[i+1].outer

\* The restoration collaborator, called after a failed fn, has called
\* batchedUpdates.
C2_Witness ==
    /\ Depth = 3
    /\ IsBatchedCall(stack[1]) /\ stack[1].thrown /\ stack[1].pc = "exit"
    /\ stack[2].kind = "restore"
    /\ IsBatchedCall(stack[3]) /\ stack[3].outer /\ isBatching

\* C3: a batchedUpdates call entered while isBatching is false that ends by a
\* throw has reset isBatching and asked needsStateRestore by the time the
\* exception reaches its caller; one entered while isBatching is true that
\* ends by a throw leaves isBatching set and has asked and restored nothing.
C3_FailureStillResets ==
    (IsBatchedCall(lastDone) /\ lastDone.thrown) =>
        IF lastDone.idle
        THEN ~lastDone.flagAtExit /\ lastDone.nq = 1
        ELSE lastDone.flagAtExit /\ lastDone.nq = 0 /\ lastDone.nfl = 0 /\ lastDone.nrs = 0

\* The fn of an outermost call has thrown and the exception is on its way to
\* the caller, after needsStateRestore was asked.
C3_Witness ==
    /\ raised /\ Depth = 0
    /\ IsBatchedCall(lastDone) /\ lastDone.idle /\ lastDone.thrown
    /\ lastDone.nq = 1 /\ lastDone.nrs = 1 /\ ~isBatching

(***************************************************************************)
(* Properties of the event pool                                            *)
(***************************************************************************)
PoolOf(c) == classes[c].eventPool
InPool(e, c) == \E i \in 1..Len(PoolOf(c)) : PoolOf(c)[i] = e
NoDuplicates(pool) ==
    \A i \in 1..Len(pool), j \in 1..Len(pool) : pool[i] = pool[j] => i = j

\* Every reference field is null and both predicates return false.
Cleared(this) ==
    /\ \A p \in DOMAIN this.props : this.props[p] = Null
    /\ this.dispatchConfig = Null
    /\ this.targetInst = Null
    /\ this.nativeEvent = Null
    /\ this.dispatchListeners = Null
    /\ this.dispatchInstances = Null
    /\ ~this.isDefaultPrevented
    /\ ~this.isPropagationStopped

\* C4: whatever getPooled and release calls are made, an event that is held
\* by a caller is in no pool, and no pool holds an event twice.
C4_HeldNotInPool ==
    \A c \in ClassIds :
        /\ \A e \in held : ~InPool(e, c)
        /\ NoDuplicates(PoolOf(c))

\* C5: no pool ever holds more than EVENT_POOL_SIZE events, and a release
\* into a pool that holds EVENT_POOL_SIZE events runs the destructor on the
\* event and leaves the pool as it was.
C5_PoolBounded ==
    /\ [](\A c \in ClassIds : Len(PoolOf(c)) <= EVENT_POOL_SIZE)
    /\ [][(last'.op = "release" /\ last'.ok
             /\ Len(PoolOf(last'.cls)) = EVENT_POOL_SIZE)
            => /\ classes' = classes
               /\ Cleared(heap'[last'.inst])]_vars

\* An event that had been used was released into a full pool.
C5_Witness ==
    /\ last.op = "release" /\ last.ok /\ last.poolLen = EVENT_POOL_SIZE
    /\ last.before.isPropagationStopped
    /\ Len(PoolOf(last.cls)) = EVENT_POOL_SIZE

\* What a newly allocated event of class c constructed with the arguments a is.
Fresh(c, a) == SyntheticEvent(NewObject(c), a)

\* C6: getPooled on a class whose pool is not empty takes the last event of
\* the pool out of it and returns that event, and getPooled on a class whose
\* pool is empty returns a newly allocated event and leaves the pool empty; the
\* fields of the descriptor table, dispatchConfig, targetInst and nativeEvent
\* of the event returned are those the arguments of the call give.
C6_GetPooledReuses ==
    [][last'.op = "getPooled" =>
        LET c == last'.cls
            e == last'.inst
            a == last'.args
            pool == PoolOf(c)
        IN /\ IF Len(pool) # 0
              THEN /\ e = pool[Len(pool)]
                   /\ classes'[c].eventPool = SubSeq(pool, 1, Len(pool) - 1)
                   /\ Len(heap') = Len(heap)
              ELSE /\ e = Len(heap) + 1
                   /\ Len(heap') = Len(heap) + 1
                   /\ classes'[c].eventPool = <<>>
           /\ heap'[e].dispatchConfig = a.dispatchConfig
           /\ heap'[e].targetInst = a.targetInst
           /\ heap'[e].nativeEvent = a.nativeEvent
           /\ heap'[e].props = Fresh(c, a).props
           /\ heap'[e].props.target = a.nativeEventTarget
           /\ heap'[e].props.type = natives[a.nativeEvent].type
           /\ heap'[e].props.defaultPrevented = natives[a.nativeEvent].defaultPrevented
    ]_vars

\* Two events were in the pool, and the one taken had been constructed from
\* the other native event and had preventDefault called on it.
C6_Witness ==
    /\ last.op = "getPooled" /\ last.reused /\ last.poolLen = 2
    /\ last.args.nativeEvent = "n2"
    /\ natives["n1"].preventDefaultCalls = 1
    /\ \A e \in Events : e # last.inst => heap[e].dispatchConfig = Null

\* The listeners and instances slots hold nothing when undefined or null.
Observable(this) ==
    [this EXCEPT !.dispatchListeners = IF IsNullish(@) THEN "nothing" ELSE @,
                 !.dispatchInstances = IF IsNullish(@) THEN "nothing" ELSE @]

\* C7: the event getPooled returns is, in all that can be observed of it, the
\* event a fresh allocation and construction with the same arguments gives.
C7_PoolingTransparent ==
    last.op = "getPooled" =>
        Observable(heap[last.inst]) = Observable(Fresh(last.cls, last.args))

\* C8: release on class c of an event that is not an instance of c throws, and
\* then no pool, no event and no native event has changed; on an instance of c
\* it does not throw.
C8_ReleaseTypeMismatch ==
    /\ [](last.op = "release" =>
            (last.ok <=> InheritsFrom(heap[last.inst].cls, last.cls)))
    /\ [][(last'.op = "release" /\ ~last'.ok) =>
            UNCHANGED <<classes, heap, natives, held>>]_vars

\* An event in use was released into the pool of a class it is no instance of.
C8_Witness ==
    /\ last.op = "release" /\ ~last.ok
    /\ ~InheritsFrom(heap[last.inst].cls, last.cls)
    /\ last.inst \in held
    /\ heap[last.inst].dispatchConfig = "configA"

\* C9: release of an event on a class it is an instance of returns, and then
\* the fields of the descriptor table, dispatchConfig, targetInst, nativeEvent,
\* dispatchListeners and dispatchInstances of the event are null and
\* isDefaultPrevented() and isPropagationStopped() return false.
C9_ReleaseClears ==
    (last.op = "release" /\ InheritsFrom(heap[last.inst].cls, last.cls)) =>
        last.ok /\ Cleared(heap[last.inst])

\* The event released had preventDefault and stopPropagation called on it and
\* its slots filled, and the pool was full.
C9_Witness ==
    /\ last.op = "release" /\ last.ok /\ last.poolLen = EVENT_POOL_SIZE
    /\ last.before.isDefaultPrevented /\ last.before.isPropagationStopped
    /\ last.before.dispatchListeners = "listeners"
    /\ Cleared(heap[last.inst])

\* C10: after release(event) has returned, event.isPersistent() returns false.
C10_ReleaseClearsPersistence ==
    (last.op = "release" /\ last.ok) => ~heap[last.inst].isPersistent

\* Two different classes made by extend from the same class.
Siblings(c, d) == c # d /\ classes[c].Super # 0 /\ classes[c].Super = classes[d].Super

\* C11: two classes made by extend from the same base have independent pools.
\* release on a class returns only for an instance of that class (line 281),
\* and the pool of a class never holds an instance of a sibling, so getPooled
\* on a class never returns an event that was released through a sibling; a
\* release on a class leaves the pool of every sibling and of the base as it
\* was.
C11_SiblingPoolsIndependent ==
    /\ [](\A c \in ClassIds, d \in ClassIds :
             Siblings(c, d) =>
                \A i \in 1..Len(PoolOf(d)) : ~InheritsFrom(heap[PoolOf(d)[i]].cls, c))
    /\ [][last'.op = "release" =>
            /\ last'.ok => InheritsFrom(heap[last'.inst].cls, last'.cls)
            /\ \A d \in ClassIds :
                  (Siblings(last'.cls, d) \/ d = classes[last'.cls].Super)
                      => classes'[d].eventPool = classes[d].eventPool]_vars
    /\ [][(last'.op = "getPooled" /\ last'.reused) =>
            \A c \in ClassIds :
                Siblings(c, last'.cls) => ~InheritsFrom(heap[last'.inst].cls, c)]_vars

\* An event was released through one sibling and is in its pool; getPooled on
\* the other sibling, whose pool is empty, has then allocated a new event.
C11_Witness ==
    /\ last.op = "getPooled" /\ ~last.reused
    /\ \E c \in ClassIds :
          /\ Siblings(c, last.cls)
          /\ Len(PoolOf(c)) = 1
          /\ heap[PoolOf(c)[1]].cls = c
          /\ PoolOf(classes[c].Super) = <<>>

\* C12: after preventDefault() has been called on an event, the call has
\* returned, the defaultPrevented flag of the event is true and
\* isDefaultPrevented() returns true, also when the event has no native event.
C12_PreventDefaultIdempotent ==
    last.op = "preventDefault" =>
        /\ last.ok
        /\ heap[last.inst].props.defaultPrevented = "true"
        /\ heap[last.inst].isDefaultPrevented

\* C13: right after getPooled has constructed an event, by allocation or by
\* reuse, isDefaultPrevented() returns the defaultPrevented of the native
\* event when that field is neither undefined nor null, and otherwise returns
\* true exactly when the returnValue of the native event is false;
\* isPropagationStopped() returns false.
C13_PredicatesAtConstruction ==
    last.op = "getPooled" =>
        LET ne == natives[last.args.nativeEvent] IN
        /\ heap[last.inst].isDefaultPrevented =
              (IF ne.defaultPrevented \notin {Undefined, Null}
               THEN ne.defaultPrevented = "true"
               ELSE ne.returnValue = "false")
        /\ ~heap[last.inst].isPropagationStopped

\* The only event there is had preventDefault and stopPropagation called on
\* it while it was constructed from the legacy native event, and has been
\* constructed again from that native event, whose returnValue is now false.
C13_Witness ==
    /\ last.op = "getPooled" /\ last.reused /\ Len(heap) = 1
    /\ last.args.nativeEvent = "n2"
    /\ natives["n2"].returnValue = "false" /\ natives["n2"].cancelBubble = "true"
    /\ heap[last.inst].isDefaultPrevented

\* C15: after stopPropagation() has been called on an event, the call has
\* returned and isPropagationStopped() returns true; a call on an event with
\* no native event changes no native event, and a call on an event with a
\* native event calls the stopPropagation of the native event or sets its
\* cancelBubble.
C15_StopPropagationIdempotent ==
    /\ [](last.op = "stopPropagation" =>
            last.ok /\ heap[last.inst].isPropagationStopped)
    /\ [][last'.op = "stopPropagation" =>
            IF ~Truthy(heap[last'.inst].nativeEvent)
            THEN natives' = natives
            ELSE LET ne == heap[last'.inst].nativeEvent IN
                 IF Truthy(natives[ne].stopPropagation)
                 THEN natives'[ne].stopPropagationCalls = natives[ne].stopPropagationCalls + 1
                 ELSE natives'[ne].cancelBubble = "true"]_vars

\* C15, amended: stopPropagation() always returns. Called on an event with a
\* native event, it makes isPropagationStopped() return true, and it calls the
\* stopPropagation of the native event when there is one, and otherwise sets
\* the cancelBubble of the native event to true unless typeof cancelBubble is
\* 'unknown'; a second call changes nothing more on the event. Called on an
\* event with no native event, it changes neither the event (so that
\* isPropagationStopped() returns what it returned before) nor any native
\* event.
C15_StopPropagationAttached ==
    /\ [](last.op = "stopPropagation" => last.ok)
    /\ [][last'.op = "stopPropagation" =>
            LET e == last'.inst
                ne == heap[e].nativeEvent
            IN IF ne \in {Undefined, Null}
               THEN heap' = heap /\ natives' = natives
               ELSE /\ heap'[e].isPropagationStopped
                    /\ heap[e].isPropagationStopped => heap' = heap
                    /\ IF natives[ne].stopPropagation = "function"
                       THEN natives'[ne].stopPropagationCalls = natives[ne].stopPropagationCalls + 1
                       ELSE IF natives[ne].cancelBubble # "unknown"
                            THEN natives'[ne].cancelBubble = "true"
                            ELSE natives' = natives]_vars

\* stopPropagation was called on an event that had been released, after it
\* had been called twice on an event constructed from the modern native event
\* and on an event constructed from the legacy one.
C15_Witness ==
    /\ last.op = "stopPropagation" /\ last.ok
    /\ heap[last.inst].nativeEvent = Null
    /\ ~heap[last.inst].isPropagationStopped
    /\ natives["n1"].stopPropagationCalls = 2
    /\ natives["n2"].cancelBubble = "true"

\* The class, among c and the classes it was extended from, nearest to c whose
\* own table has the entry p.
RECURSIVE Definer(_, _)
Definer(c, p) ==
    IF p \in DOMAIN classes[c].Given \/ classes[c].Super = 0 THEN c
    ELSE Definer(classes[c].Super, p)

\* The names of the tables of c and of the classes it was extended from.
RECURSIVE ChainNames(_)
ChainNames(c) ==
    DOMAIN classes[c].Given \cup
       (IF classes[c].Super = 0 THEN {} ELSE ChainNames(classes[c].Super))

\* C14: the descriptor table of a class made by a chain of extend calls is the
\* merge, from the base to the class, of the table of SyntheticEvent and the
\* tables given to the extend calls, the entry of a later table replacing the
\* entry of the same name of an earlier one; extend changes the table of no
\* class there was before.
C14_ExtendMergesLeftToRight ==
    /\ [](\A c \in ClassIds :
             classes[c].Interface =
                 [p \in ChainNames(c) |-> classes[Definer(c, p)].Given[p]])
    /\ [][last'.op = "extend" =>
            /\ Len(classes') = Len(classes) + 1
            /\ \A c \in ClassIds : classes'[c].Interface = classes[c].Interface]_vars

\* A class made by SyntheticEvent.extend(UIEventInterface).extend(
\* MouseEventInterface): the second table has replaced an entry of the first
\* and an entry of SyntheticEvent, and an event of the class was constructed.
C14_Witness ==
    \E c \in ClassIds :
        /\ classes[c].Given = MouseEventInterface
        /\ classes[c].Super # 0
        /\ classes[classes[c].Super].Given = UIEventInterface
        /\ classes[classes[c].Super].Super = 1
        /\ classes[classes[c].Super].Interface.detail = NullRule
        /\ classes[c].Interface.detail = ReturnsNull
        /\ classes[c].Interface.timeStamp = NullRule
        /\ classes[1].Interface.timeStamp = TimeStampOrNow
        /\ \E e \in held : heap[e].cls = c /\ heap[e].props.timeStamp = "1000"

(***************************************************************************)
(* Further properties of the batching coordinator                          *)
(***************************************************************************)
\* The activations there are and the one that ended last.
Activations ==
    {stack[i] : i \in 1..Depth} \cup (IF lastDone.kind = "none" THEN {} ELSE {lastDone})
Ended(f) == f.pc = "done"

\* C16: a batchedUpdates call entered while isBatching is true calls fn once,
\* directly and not through _batchedUpdatesImpl; isBatching is true while its
\* fn runs and when the call ends, by return or by throw; the call returns
\* what fn returned. _batchedUpdatesImpl is called only by calls entered while
\* isBatching is false.
C16_NestedRunsFnDirectly ==
    /\ \A f \in Activations :
          IsBatchedCall(f) =>
             IF ~f.idle
             THEN /\ f.nfn = 1 /\ f.nimpl = 0 /\ f.via = "direct"
                  /\ Ended(f) => /\ f.flagAtExit
                                 /\ ~f.thrown => f.result = f.bodyResult
             ELSE f.nfn = 0 /\ f.nimpl = 1 /\ f.via \in Impls
    /\ (Depth > 0 /\ ~raised) =>
          ((IsBatchedCall(Top) /\ ~Top.idle) => isBatching)

\* Inside an outermost call that runs the injected implementation, a nested
\* call has returned the result 1 of its fn.
C16_Witness ==
    /\ Depth = 1 /\ IsBatchedCall(Top) /\ Top.idle /\ Top.via = "injected"
    /\ Top.pc = "body" /\ batchedUpdatesImpl = "injected"
    /\ IsBatchedCall(lastDone) /\ ~lastDone.idle /\ ~lastDone.thrown
    /\ lastDone.bodyResult = 1 /\ lastDone.result = 1 /\ isBatching

\* C17: an outermost batchedUpdates call that has ended has called
\* _flushInteractiveUpdatesImpl once and restoreStateIfNeeded once when
\* needsStateRestore() returned true, and neither when it returned false;
\* restoreStateIfNeeded is called after _flushInteractiveUpdatesImpl; and
\* restoreStateIfNeeded runs only as called from the exit of an outermost
\* batchedUpdates call.
C17_FlushThenRestoreIffNeeded ==
    /\ \A f \in Activations :
          (IsBatchedCall(f) /\ f.idle) =>
             /\ Ended(f) => /\ f.nfl = (IF f.needs THEN 1 ELSE 0)
                            /\ f.nrs = (IF f.needs THEN 1 ELSE 0)
             /\ f.nrs <= f.nfl /\ f.nfl <= 1
             /\ f.nfl = 1 => f.needs
    /\ \A f \in Activations : ~IsBatchedCall(f) => f.nrs = 0
    /\ \A i \in 1..Depth :
          stack[i].kind = "restore" =>
             /\ i > 1
             /\ IsBatchedCall(stack[i-1]) /\ stack[i-1].outer
             /\ stack[i-1].pc = "exit" /\ stack[i-1].nrs = 1

\* Which step interactiveUpdates or flushInteractiveUpdates has just taken:
\* the activation it has made, or NoFrame.
Delegation ==
    IF Len(stack') = Depth + 1 /\ stack'[Depth + 1].kind \in {"interactive", "flush"}
    THEN stack'[Depth + 1]
    ELSE IF lastDone' # lastDone /\ lastDone'.kind = "flush" /\ Len(stack') = Depth
         THEN lastDone'
         ELSE NoFrame

\* C18: interactiveUpdates and flushInteractiveUpdates call the
\* implementation that is configured at the time of the call and do nothing
\* else: the call, and the return or throw of the implementation, leave
\* isBatching as it is, and their activations never ask needsStateRestore nor
\* call restoreStateIfNeeded; a batchedUpdates call made in the fn of
\* interactiveUpdates while isBatching is false takes the outermost path.
C18_InteractiveOnlyDelegates ==
    /\ [](\A f \in Activations :
             f.kind \in {"interactive", "flush"} => f.nq = 0 /\ f.nrs = 0)
    /\ [](\A i \in 1..(Depth - 1) :
             (stack[i].kind = "interactive" /\ IsBatchedCall(stack[i+1])
                 /\ stack[i+1].idle) => stack[i+1].outer /\ stack[i+1].nimpl = 1)
    /\ [][Delegation.kind # "none" =>
            /\ isBatching' = isBatching
            /\ Delegation.via = (IF Delegation.kind = "interactive"
                                 THEN interactiveUpdatesImpl
                                 ELSE flushInteractiveUpdatesImpl)]_vars
    /\ [][(Depth > 0 /\ Len(stack') = Depth - 1) =>
            (Top.kind \in {"interactive", "flush"} => isBatching' = isBatching)]_vars

\* After the host has injected its implementations, the fn of
\* interactiveUpdates, called while isBatching was false, has called
\* batchedUpdates.
C18_Witness ==
    /\ Depth = 2
    /\ stack[1].kind = "interactive" /\ stack[1].via = "injected" /\ stack[1].idle
    /\ IsBatchedCall(stack[2]) /\ stack[2].outer /\ stack[2].idle /\ isBatching

\* C19: every event in the pool of a class was constructed by that class
\* itself, and release on a class of an event constructed by another class,
\* also by a class extended from it, throws.
C19_PoolHoldsOwnInstances ==
    /\ \A c \in ClassIds :
          \A i \in 1..Len(PoolOf(c)) : heap[PoolOf(c)[i]].cls = c
    /\ (last.op = "release" /\ heap[last.inst].cls # last.cls) => ~last.ok
    /\ last.op = "getPooled" => heap[last.inst].cls = last.cls

\* C20: isBatching is false whenever no batchedUpdates call is active, and
\* true while the body (_batchedUpdatesImpl and fn) of an outermost call runs;
\* only the entry of an outermost call (line 43) and line 53 of its exit
\* change it; and an outermost call that has ended, by return or by throw, has
\* left it false.
C20_FlagTracksOutermost ==
    /\ []((\A i \in 1..Depth : ~IsBatchedCall(stack[i])) => ~isBatching)
    /\ [](\A i \in 1..Depth :
             (IsBatchedCall(stack[i]) /\ stack[i].outer /\ stack[i].pc = "body")
                 => isBatching)
    /\ [][isBatching' # isBatching =>
            IF isBatching'
            THEN /\ Len(stack') = Depth + 1
                 /\ IsBatchedCall(stack'[Depth + 1]) /\ stack'[Depth + 1].outer
            ELSE /\ Depth > 0 /\ Len(stack') = Depth
                 /\ IsBatchedCall(Top) /\ Top.outer /\ Top.pc = "reset"]_vars
    /\ []((IsBatchedCall(lastDone) /\ lastDone.outer) => ~lastDone.flagAtExit)

\* The host has changed the implementations during the body of an outermost
\* call, inside which interactiveUpdates was then called.
C20_Witness ==
    /\ Depth = 2 /\ IsBatchedCall(stack[1]) /\ stack[1].outer /\ stack[1].pc = "body"
    /\ stack[1].via = "injected" /\ batchedUpdatesImpl = "default"
    /\ stack[2].kind = "interactive" /\ stack[2].via = "default"
    /\ isBatching

====
